---- MODULE Spec2Model ----
(***************************************************************************)
(* Light-bulb prisoners simulation (src/main.cpp): Prison<Prisoner>::Run   *)
(* driving DedicatedCounterPrisoner, TokenPrisoner, or any other           *)
(* implementation of PrisonerBase::TakeAction.                             *)
(***************************************************************************)
EXTENDS Integers, FiniteSets, Sequences, TLC

\* ---- bounds of the model ------------------------------------------------
MaxN == 4          \* largest n_prisoners of the two shipped protocols
MaxNAny == 5       \* largest n_prisoners with an arbitrary TakeAction
MaxDay == 60       \* visits are explored while day_number < MaxDay
MaxDayAny == 3     \* the same for an arbitrary TakeAction
MaxUBStage == 1    \* largest value a division by zero is taken to yield
MaxStageN == 6     \* largest n_prisoners GetStageIndex is evaluated for
MaxStageDay == 200 \* largest day_number GetStageIndex is evaluated for

VARIABLES
    protocol,      \* the Prisoner template argument of Prison<Prisoner>
    n_prisoners,   \* Prison::n_prisoners
    day_number,    \* Prison::day_number
    is_on,         \* Prison::light.is_on
    indicators,    \* Prison::prisoners_have_been_in_the_room_indicators
    has_turned_on_the_light,     \* DedicatedCounterPrisoner field, per prisoner
    times_turned_off_the_light,  \* DedicatedCounterPrisoner field, per prisoner
    n_tokens,      \* TokenPrisoner::n_tokens, per prisoner
    prisoner_id,   \* NextDay's local: the prisoner drawn on the last visit
    input_day,     \* PrisonerInput::day_number handed to the last TakeAction
    prisoner_claim,\* Run's local: the claim returned by the last NextDay
    pc,            \* where Run is: running, returned, thrown, crashed
    result,        \* the value Run returned (NoResult while there is none)
    stage_index,   \* the last value of GetStageIndex(day_number) (NoStage: none)
    next_day_stage_index  \* the last value of GetStageIndex(day_number + 1)

vars == <<protocol, n_prisoners, day_number, is_on, indicators,
          has_turned_on_the_light, times_turned_off_the_light, n_tokens,
          prisoner_id, input_day, prisoner_claim, pc, result,
          stage_index, next_day_stage_index>>

claim_nothing == "claim_nothing"
claim_that_everyone_has_been_in_the_room == "claim_that_everyone_has_been_in_the_room"
PrisonerClaim == {claim_nothing, claim_that_everyone_has_been_in_the_room}

NoResult == -1
NoPrisoner == -1
NoStage == -1

Ids(n) == 0 .. (n - 1)

\* ---- Prison -------------------------------------------------------------
HaveAllPrisonersBeenInTheRoom(ind, n) == \A i \in Ids(n) : ind[i]

\* NextDay: "prisoners_have_been_in_the_room_indicators[prisoner_id] = true"
MarkOnlyTheLatest(ind, id) == [j \in DOMAIN ind |-> j = id]

MarkInTheRoom(ind, id) == [ind EXCEPT ![id] = TRUE]

\* Run's outcome for one returned claim, given the indicators after NextDay
RunOutcomeUnchecked(claim, ind, n) ==
    IF claim = claim_that_everyone_has_been_in_the_room THEN "returned" ELSE "running"

RunOutcome(claim, ind, n) ==
    IF claim = claim_that_everyone_has_been_in_the_room
    THEN IF HaveAllPrisonersBeenInTheRoom(ind, n) THEN "returned" ELSE "thrown"
    ELSE "running"

\* Run's return value: the counter NextDay has already incremented
RunReturnValueBeforeIncrement(day_after, passed_day) == passed_day

RunReturnValue(day_after, passed_day) == day_after

\* The constructor: light off, nobody seen, day 0
PrisonInit(proto, n) ==
    /\ protocol = proto
    /\ n_prisoners = n
    /\ day_number = 0
    /\ is_on = FALSE
    /\ indicators = [i \in Ids(n) |-> FALSE]
    /\ prisoner_id = NoPrisoner
    /\ input_day = NoResult
    /\ prisoner_claim = claim_nothing
    /\ pc = "running"
    /\ result = NoResult
    /\ stage_index = NoStage
    /\ next_day_stage_index = NoStage

\* One iteration of Run's loop: NextDay for the drawn prisoner i, whose
\* TakeAction left the light at new_light and returned claim, then the
\* adjudication of the claim.
RunIteration(i, new_light, claim) ==
    /\ pc = "running"
    /\ i \in Ids(n_prisoners)
    /\ prisoner_id' = i
    /\ indicators' = MarkInTheRoom(indicators, i)
    /\ input_day' = day_number
    /\ is_on' = new_light
    /\ day_number' = day_number + 1
    /\ prisoner_claim' = claim
    /\ pc' = RunOutcome(claim, indicators', n_prisoners)
    /\ result' = IF pc' = "returned"
                 THEN RunReturnValue(day_number', input_day')
                 ELSE result
    /\ UNCHANGED <<protocol, n_prisoners>>

\* ---- DedicatedCounterPrisoner -------------------------------------------
\* prisoner 0: "if (input.light->IsOn())"
CounterTurnsOffAlways(light) == TRUE

CounterTurnsOff(light) == light

\* prisoner 0: "if (times_turned_off_the_light == n_prisoners - 1)"
CounterClaimsAtN(count, n) == count = n

CounterClaims(count, n) == count = n - 1

\* others: "if (not has_turned_on_the_light and input.light->IsOff())"
TurnsOnWheneverOff(has_turned_on, light) == ~light

TurnsOn(has_turned_on, light) == ~has_turned_on /\ ~light

\* TakeAction as a function of the prisoner's fields and the light
DedicatedTakeAction(id, n, has_turned_on, count, light) ==
    IF id = 0
    THEN LET off == CounterTurnsOff(light)
             c   == IF off THEN count + 1 ELSE count
         IN [has_turned_on |-> has_turned_on,
             count |-> c,
             light |-> IF off THEN FALSE ELSE light,
             claim |-> IF CounterClaims(c, n)
                       THEN claim_that_everyone_has_been_in_the_room
                       ELSE claim_nothing]
    ELSE LET on == TurnsOn(has_turned_on, light)
         IN [has_turned_on |-> IF on THEN TRUE ELSE has_turned_on,
             count |-> count,
             light |-> IF on THEN TRUE ELSE light,
             claim |-> claim_nothing]

DedicatedResult(i) ==
    DedicatedTakeAction(i, n_prisoners, has_turned_on_the_light[i],
                        times_turned_off_the_light[i], is_on)

\* a visit that leaves the light and the prisoner as they were and claims nothing
DedicatedIdle(i) ==
    /\ DedicatedResult(i).light = is_on
    /\ DedicatedResult(i).claim = claim_nothing

DedicatedInit ==
    /\ \E n \in 1 .. MaxN : PrisonInit("DedicatedCounterPrisoner", n)
    /\ has_turned_on_the_light = [i \in Ids(n_prisoners) |-> FALSE]
    /\ times_turned_off_the_light = [i \in Ids(n_prisoners) |-> 0]
    /\ n_tokens = [i \in Ids(n_prisoners) |-> 0]

DedicatedNextDay(i) ==
    /\ protocol = "DedicatedCounterPrisoner"
    /\ i \in Ids(n_prisoners)
    /\ day_number < MaxDay \/ ~DedicatedIdle(i)
    /\ LET r == DedicatedResult(i)
       IN /\ RunIteration(i, r.light, r.claim)
          /\ has_turned_on_the_light' =
                 [has_turned_on_the_light EXCEPT ![i] = r.has_turned_on]
          /\ times_turned_off_the_light' =
                 [times_turned_off_the_light EXCEPT ![i] = r.count]
    /\ UNCHANGED <<n_tokens, stage_index, next_day_stage_index>>

DedicatedNext == \E i \in Ids(MaxN) : DedicatedNextDay(i)

DedicatedSpec == DedicatedInit /\ [][DedicatedNext]_vars

DedicatedFairness ==
    \A i \in Ids(MaxN) : SF_vars(DedicatedNextDay(i) /\ ~DedicatedIdle(i))

\* the scheduler draws every prisoner again and again in every state of the
\* light, so a visit that can act is not postponed for ever
DedicatedFairSpec == DedicatedSpec /\ DedicatedFairness

\* ---- any Prisoner: PrisonerBase::TakeAction is pure virtual --------------
AnyInit ==
    /\ \E n \in 1 .. MaxNAny : PrisonInit("AnyPrisoner", n)
    /\ has_turned_on_the_light = [i \in Ids(n_prisoners) |-> FALSE]
    /\ times_turned_off_the_light = [i \in Ids(n_prisoners) |-> 0]
    /\ n_tokens = [i \in Ids(n_prisoners) |-> 0]

\* an implementation may leave the light either way and return either claim
AnyNextDay(i) ==
    /\ protocol = "AnyPrisoner"
    /\ day_number < MaxDayAny
    /\ \E new_light \in BOOLEAN, claim \in PrisonerClaim :
           RunIteration(i, new_light, claim)
    /\ UNCHANGED <<has_turned_on_the_light, times_turned_off_the_light, n_tokens,
                   stage_index, next_day_stage_index>>

AnyNext == \E i \in Ids(MaxNAny) : AnyNextDay(i)

AnySpec == AnyInit /\ [][AnyNext]_vars

\* ---- TokenPrisoner -------------------------------------------------------
RECURSIVE Pow2(_)
Pow2(e) == IF e <= 0 THEN 1 ELSE 2 * Pow2(e - 1)

\* std::ceil(log2(number)): the least e with 2^e >= number
RECURSIVE CeilLog2From(_, _)
CeilLog2From(number, e) ==
    IF Pow2(e) >= number THEN e ELSE CeilLog2From(number, e + 1)

GetClosestNotSmallerPowerOf2(number) == CeilLog2From(number, 0)

\* "n_tokens & rate" for a rate that is a power of two
HasBit(tokens, rate) == (tokens \div rate) % 2 = 1

\* the constructor's token allotment
InitialTokensAllTwo(id, n) == 2

InitialTokens(id, n) ==
    LET n_prisoners_with_2_tokens == Pow2(GetClosestNotSmallerPowerOf2(n)) - n
    IN IF id < n_prisoners_with_2_tokens THEN 2 ELSE 1

\* GetStageIndex with "<=" for "<" in the first-cycle test
GetStageIndexInclusive(n, day) ==
    LET first_cycle_interval == n * 7
        next_cycles_interval == n * 3
        n_stages == GetClosestNotSmallerPowerOf2(n)
    IN IF day <= n_stages * first_cycle_interval
       THEN day \div first_cycle_interval
       ELSE LET tail == day - n_stages * first_cycle_interval
            IN (tail \div next_cycles_interval) % n_stages

\* GetStageIndex without the "% n_stages" of the later cycles
GetStageIndexNoWrap(n, day) ==
    LET first_cycle_interval == n * 7
        next_cycles_interval == n * 3
        n_stages == GetClosestNotSmallerPowerOf2(n)
    IN IF day < n_stages * first_cycle_interval
       THEN day \div first_cycle_interval
       ELSE LET tail == day - n_stages * first_cycle_interval
            IN tail \div next_cycles_interval

\* GetStageIndex, for n_stages >= 1 (n_stages = 0 divides by zero, see below)
GetStageIndex(n, day) ==
    LET first_cycle_interval == n * 7
        next_cycles_interval == n * 3
        n_stages == GetClosestNotSmallerPowerOf2(n)
    IN IF day < n_stages * first_cycle_interval
       THEN day \div first_cycle_interval
       ELSE LET tail == day - n_stages * first_cycle_interval
            IN (tail \div next_cycles_interval) % n_stages

\* IsLastDayOfTheStage from the two stage indices it compares
IsLastDayOfTheStageNever(stage, next_day_stage) == FALSE

IsLastDayOfTheStage(stage, next_day_stage) ==
    stage # next_day_stage

\* MaybeTurnOffLight, given GetStageIndex(day) and GetStageIndex(day + 1)
MaybeTurnOffLightKeepingTokens(tokens, light, stage, next_day_stage) ==
    LET exchange_rate == Pow2(stage)
    IN IF light /\ (IsLastDayOfTheStage(stage, next_day_stage)
                    \/ HasBit(tokens, exchange_rate))
       THEN [n_tokens |-> tokens, light |-> FALSE]
       ELSE [n_tokens |-> tokens, light |-> light]

MaybeTurnOffLight(tokens, light, stage, next_day_stage) ==
    LET exchange_rate == Pow2(stage)
    IN IF light /\ (IsLastDayOfTheStage(stage, next_day_stage)
                    \/ HasBit(tokens, exchange_rate))
       THEN [n_tokens |-> tokens + exchange_rate, light |-> FALSE]
       ELSE [n_tokens |-> tokens, light |-> light]

\* MaybeTurnOnLight, given GetStageIndex(day + 1)
MaybeTurnOnLightWithoutTheBit(tokens, light, next_day_stage) ==
    LET next_day_exchange_rate == Pow2(next_day_stage)
    IN IF ~light
       THEN [n_tokens |-> tokens - next_day_exchange_rate, light |-> TRUE]
       ELSE [n_tokens |-> tokens, light |-> light]

MaybeTurnOnLight(tokens, light, next_day_stage) ==
    LET next_day_exchange_rate == Pow2(next_day_stage)
    IN IF ~light /\ HasBit(tokens, next_day_exchange_rate)
       THEN [n_tokens |-> tokens - next_day_exchange_rate, light |-> TRUE]
       ELSE [n_tokens |-> tokens, light |-> light]

ShouldClaimThatEveryoneHasBeenInTheRoom(tokens, n) ==
    tokens = Pow2(GetClosestNotSmallerPowerOf2(n))

TokenTakeAction(n, tokens, light, stage, next_day_stage) ==
    LET off == MaybeTurnOffLight(tokens, light, stage, next_day_stage)
        on  == MaybeTurnOnLight(off.n_tokens, off.light, next_day_stage)
    IN [n_tokens |-> on.n_tokens,
        light |-> on.light,
        claim |-> IF ShouldClaimThatEveryoneHasBeenInTheRoom(on.n_tokens, n)
                  THEN claim_that_everyone_has_been_in_the_room
                  ELSE claim_nothing]

TokenInit ==
    /\ \E n \in 1 .. MaxN : PrisonInit("TokenPrisoner", n)
    /\ has_turned_on_the_light = [i \in Ids(n_prisoners) |-> FALSE]
    /\ times_turned_off_the_light = [i \in Ids(n_prisoners) |-> 0]
    /\ n_tokens = [i \in Ids(n_prisoners) |-> InitialTokens(i, n_prisoners)]

TokenVisit(i, stage, next_day_stage) ==
    /\ protocol = "TokenPrisoner"
    /\ day_number < MaxDay
    /\ LET r == TokenTakeAction(n_prisoners, n_tokens[i], is_on,
                                stage, next_day_stage)
       IN /\ RunIteration(i, r.light, r.claim)
          /\ n_tokens' = [n_tokens EXCEPT ![i] = r.n_tokens]
    \* MaybeTurnOffLight returns before GetStageIndex when the light is off
    /\ stage_index' = IF is_on THEN stage ELSE NoStage
    /\ next_day_stage_index' = next_day_stage
    /\ UNCHANGED <<has_turned_on_the_light, times_turned_off_the_light>>

\* NextDay when GetStageIndex is defined (n_stages >= 1)
TokenNextDay(i) ==
    /\ GetClosestNotSmallerPowerOf2(n_prisoners) >= 1
    /\ TokenVisit(i, GetStageIndex(n_prisoners, day_number),
                     GetStageIndex(n_prisoners, day_number + 1))

\* NextDay for n_prisoners = 1: n_stages = 0 and GetStageIndex evaluates
\* "tail / next_cycles_interval % 0" on every visit (in MaybeTurnOffLight when
\* the light is on, in MaybeTurnOnLight when it is off).  The process is
\* killed by the trap ...
TokenNextDayTrap(i) ==
    /\ protocol = "TokenPrisoner"
    /\ GetClosestNotSmallerPowerOf2(n_prisoners) = 0
    /\ pc = "running"
    /\ i \in Ids(n_prisoners)
    /\ day_number < MaxDay
    /\ prisoner_id' = i
    /\ indicators' = MarkInTheRoom(indicators, i)
    /\ input_day' = day_number
    /\ pc' = "crashed"
    /\ UNCHANGED <<protocol, n_prisoners, day_number, is_on, prisoner_claim,
                   result, has_turned_on_the_light, times_turned_off_the_light,
                   n_tokens, stage_index, next_day_stage_index>>

\* ... or the remainder yields some value and the visit goes on with it
TokenNextDayAnyStage(i) ==
    /\ GetClosestNotSmallerPowerOf2(n_prisoners) = 0
    /\ \E stage, next_day_stage \in 0 .. MaxUBStage :
           TokenVisit(i, stage, next_day_stage)

TokenNext ==
    \E i \in Ids(MaxN) :
        \/ TokenNextDay(i)
        \/ TokenNextDayTrap(i)
        \/ TokenNextDayAnyStage(i)

TokenSpec == TokenInit /\ [][TokenNext]_vars

\* ---- GetStageIndex / IsLastDayOfTheStage on their own --------------------
\* a TokenPrisoner among n_prisoners is asked IsLastDayOfTheStage(day_number)
StageInit ==
    /\ protocol = "TokenPrisoner"
    /\ n_prisoners \in 1 .. MaxStageN
    /\ day_number \in 0 .. MaxStageDay
    /\ is_on = FALSE
    /\ indicators = [i \in Ids(n_prisoners) |-> FALSE]
    /\ prisoner_id = NoPrisoner
    /\ input_day = NoResult
    /\ prisoner_claim = claim_nothing
    /\ pc = "running"
    /\ result = NoResult
    /\ stage_index = NoStage
    /\ next_day_stage_index = NoStage
    /\ has_turned_on_the_light = [i \in Ids(n_prisoners) |-> FALSE]
    /\ times_turned_off_the_light = [i \in Ids(n_prisoners) |-> 0]
    /\ n_tokens = [i \in Ids(n_prisoners) |-> InitialTokens(i, n_prisoners)]

StageFrame ==
    UNCHANGED <<protocol, n_prisoners, day_number, is_on, indicators,
                has_turned_on_the_light, times_turned_off_the_light, n_tokens,
                prisoner_id, input_day, prisoner_claim, result>>

\* IsLastDayOfTheStage: GetStageIndex(day_number), GetStageIndex(day_number + 1)
StageEvaluate ==
    /\ pc = "running"
    /\ GetClosestNotSmallerPowerOf2(n_prisoners) >= 1
    /\ stage_index' = GetStageIndex(n_prisoners, day_number)
    /\ next_day_stage_index' = GetStageIndex(n_prisoners, day_number + 1)
    /\ pc' = "evaluated"
    /\ StageFrame

\* n_prisoners = 1: the remainder by n_stages = 0 traps ...
StageEvaluateTrap ==
    /\ pc = "running"
    /\ GetClosestNotSmallerPowerOf2(n_prisoners) = 0
    /\ pc' = "crashed"
    /\ UNCHANGED <<stage_index, next_day_stage_index>>
    /\ StageFrame

\* ... or yields some value
StageEvaluateAnyValue ==
    /\ pc = "running"
    /\ GetClosestNotSmallerPowerOf2(n_prisoners) = 0
    /\ stage_index' \in 0 .. MaxUBStage
    /\ next_day_stage_index' \in 0 .. MaxUBStage
    /\ pc' = "evaluated"
    /\ StageFrame

StageNext == StageEvaluate \/ StageEvaluateTrap \/ StageEvaluateAnyValue

StageSpec == StageInit /\ [][StageNext]_vars

\* ---- every instantiation of Prison together ------------------------------
PrisonAnyInit == DedicatedInit \/ TokenInit \/ AnyInit

PrisonAnyNext == DedicatedNext \/ TokenNext \/ AnyNext

PrisonAnySpec == PrisonAnyInit /\ [][PrisonAnyNext]_vars

\* ==== properties ==========================================================
AllSeen == \A i \in Ids(n_prisoners) : indicators[i]

RECURSIVE SumUpTo(_, _)
SumUpTo(f, n) == IF n = 0 THEN 0 ELSE f[n - 1] + SumUpTo(f, n - 1)

TokenSum == SumUpTo(n_tokens, n_prisoners)

TokenMass == Pow2(GetClosestNotSmallerPowerOf2(n_prisoners))

\* C1: whatever the Prisoner implementation, Run ends only on a visit that
\* returned the everyone-has-been-in-the-room claim: with every indicator
\* true it has returned a day count, with some indicator false it has
\* thrown FalsePrisonerClaimException and returned nothing; after a visit
\* that claimed nothing the run is still going.
C1_RunEndsOnlyOnAdjudicatedClaim ==
    /\ pc \in {"running", "returned", "thrown"}
    /\ pc = "returned" =>
           /\ prisoner_claim = claim_that_everyone_has_been_in_the_room
           /\ AllSeen
           /\ result >= 0
    /\ pc = "thrown" =>
           /\ prisoner_claim = claim_that_everyone_has_been_in_the_room
           /\ ~AllSeen
           /\ result = NoResult
    /\ prisoner_claim = claim_nothing => pc = "running" /\ result = NoResult
    /\ (prisoner_claim = claim_that_everyone_has_been_in_the_room
            /\ prisoner_id # NoPrisoner) => pc # "running"

\* a false claim on day 0 among five prisoners has been thrown out
C1_Witness ==
    /\ protocol = "AnyPrisoner"
    /\ n_prisoners = 5
    /\ input_day = 0
    /\ pc = "thrown"

\* C2: under DedicatedCounterPrisoner, whenever a visit returns the
\* everyone-has-been-in-the-room claim every prisoner has been in the room,
\* so Run never throws.
C2_DedicatedNeverClaimsFalsely ==
    protocol = "DedicatedCounterPrisoner" =>
        /\ pc # "thrown"
        /\ prisoner_claim = claim_that_everyone_has_been_in_the_room => AllSeen

C2_Witness ==
    /\ protocol = "DedicatedCounterPrisoner"
    /\ n_prisoners >= 3
    /\ prisoner_claim = claim_that_everyone_has_been_in_the_room
    /\ prisoner_id = 0

\* C3: under TokenPrisoner, whenever a visit ends with n_tokens = 2^k and
\* returns the claim, every prisoner has been in the room, so Run never throws.
C3_TokenNeverClaimsFalsely ==
    protocol = "TokenPrisoner" =>
        /\ pc # "thrown"
        /\ prisoner_claim = claim_that_everyone_has_been_in_the_room => AllSeen

C3_Witness ==
    /\ protocol = "TokenPrisoner"
    /\ n_prisoners = 3
    /\ prisoner_claim = claim_that_everyone_has_been_in_the_room
    /\ n_tokens[prisoner_id] = 4

\* C4 as stated: the prisoners' n_tokens add up to 2^k initially and after
\* every visit (read on the n_prisoners >= 2 whose stage schedule is
\* defined, three prisoners among them).
C4_SumIsAlwaysTokenMass ==
    (protocol = "TokenPrisoner" /\ n_prisoners >= 2) => TokenSum = TokenMass

\* C4 amended: for n_prisoners >= 2 the prisoners' n_tokens add up to 2^k
\* whenever the light is off, and to 2^k less the weight of the current
\* stage, 2^GetStageIndex(day_number), whenever the light is on.
C4_SumAccountsForLight ==
    (protocol = "TokenPrisoner" /\ n_prisoners >= 2) =>
        /\ ~is_on => TokenSum = TokenMass
        /\ is_on => TokenSum =
               TokenMass - Pow2(GetStageIndex(n_prisoners, day_number))

\* three prisoners, a token of weight 2 in flight during stage 1
C4_Witness ==
    /\ protocol = "TokenPrisoner"
    /\ n_prisoners = 3
    /\ is_on
    /\ TokenSum = 2

\* C5: a single TokenPrisoner starts with n_tokens = 1 and its first visit
\* returns the claim, so Run has returned after exactly one visit.
C5_SingleTokenPrisonerClaimsAtOnce ==
    (protocol = "TokenPrisoner" /\ n_prisoners = 1) =>
        /\ prisoner_id = NoPrisoner => n_tokens[0] = 1
        /\ prisoner_id # NoPrisoner =>
               /\ pc = "returned"
               /\ prisoner_claim = claim_that_everyone_has_been_in_the_room
               /\ input_day = 0

\* C6: under DedicatedCounterPrisoner and a scheduler that keeps drawing
\* every prisoner, Run eventually returns a day count, for every n_prisoners.
C6_DedicatedRunReturns == <>(pc = "returned" /\ result >= 1)

\* a run that returned after visits that changed nothing
C6_Witness ==
    /\ protocol = "DedicatedCounterPrisoner"
    /\ pc = "returned"
    /\ n_prisoners >= 3
    /\ result > 2 * n_prisoners

\* C7: a TokenPrisoner run, for every n_prisoners >= 1, is on its way to
\* returning a day count or has returned it: it never ends in any other way.
C7_TokenRunStaysAliveUntilReturn ==
    protocol = "TokenPrisoner" => pc \in {"running", "returned"}

\* C8 as stated: Run returns the day_number that was passed to the claiming
\* prisoner's TakeAction.
C8_ReturnsPassedDayNumber ==
    pc = "returned" => result = input_day

\* C8 amended: Run returns the day counter as NextDay left it, one more than
\* the day_number passed to the claiming TakeAction (the number of visits).
C8_ReturnsDayAfterClaim ==
    /\ pc = "returned" => (result = input_day + 1 /\ result = day_number)
    /\ prisoner_id # NoPrisoner => (input_day >= 0 /\ input_day < day_number + 1)

C8_Witness ==
    /\ pc = "returned"
    /\ input_day = 2
    /\ result = 3

\* C9: prisoner 0's times_turned_off_the_light never exceeds n_prisoners - 1.
C9_CounterBound ==
    protocol = "DedicatedCounterPrisoner" =>
        /\ times_turned_off_the_light[0] <= n_prisoners - 1
        /\ times_turned_off_the_light[0] >= 0

C9_Witness ==
    /\ protocol = "DedicatedCounterPrisoner"
    /\ n_prisoners = 3
    /\ times_turned_off_the_light[0] = 2

\* C10: a prisoner other than 0 never resets has_turned_on_the_light, sets it
\* exactly on the visit on which it turns the light on (which needs the flag
\* to be false before), and never returns the claim.
C10_NonCounterStep ==
    \A i \in Ids(n_prisoners) \ {0} :
        /\ has_turned_on_the_light[i] => has_turned_on_the_light'[i]
        /\ (~has_turned_on_the_light[i] /\ has_turned_on_the_light'[i])
               <=> (prisoner_id' = i /\ ~is_on /\ is_on')
        /\ prisoner_id' = i => prisoner_claim' = claim_nothing

C10_NonCounterSignalsOnce == [][C10_NonCounterStep]_vars

\* a prisoner that has signalled comes back to a dark room and leaves it dark
C10_Witness ==
    /\ protocol = "DedicatedCounterPrisoner"
    /\ prisoner_id \in Ids(n_prisoners) \ {0}
    /\ has_turned_on_the_light[prisoner_id]
    /\ ~is_on
    /\ times_turned_off_the_light[0] >= 1
    /\ pc = "running"

NStages == GetClosestNotSmallerPowerOf2(n_prisoners)

\* C11: for every n_prisoners >= 1 and every day, GetStageIndex is defined
\* and the next day's stage is the same stage or the next one, except on the
\* last day of a cycle, where it wraps from k-1 to 0.
C11_StageStepsUpOrWraps ==
    /\ pc # "crashed"
    /\ pc = "evaluated" =>
           /\ stage_index >= 0
           /\ \/ next_day_stage_index = stage_index
              \/ next_day_stage_index = stage_index + 1
                     /\ next_day_stage_index <= NStages - 1
              \/ stage_index = NStages - 1 /\ next_day_stage_index = 0

everyone == claim_that_everyone_has_been_in_the_room

\* C12: with two DedicatedCounterPrisoners the light is turned on only by
\* prisoner 1, once, and turned off only by prisoner 0, once, on the visit
\* that returns the claim with times_turned_off_the_light = 1 and both
\* indicators true, after which Run has returned; no other visit claims.
C12_TwoPrisonersStep ==
    (protocol = "DedicatedCounterPrisoner" /\ n_prisoners = 2) =>
        /\ (~is_on /\ is_on') =>
               /\ prisoner_id' = 1
               /\ ~has_turned_on_the_light[1] /\ has_turned_on_the_light'[1]
               /\ times_turned_off_the_light[0] = 0
               /\ prisoner_claim' = claim_nothing
        /\ (is_on /\ ~is_on') =>
               /\ prisoner_id' = 0
               /\ times_turned_off_the_light[0] = 0
               /\ times_turned_off_the_light'[0] = 1
               /\ prisoner_claim' = everyone
               /\ indicators'[0] /\ indicators'[1]
               /\ pc' = "returned"
        /\ (prisoner_claim' = everyone /\ pc = "running") => (is_on /\ ~is_on')
        /\ pc' # "thrown"

C12_TwoPrisonersScenario == [][C12_TwoPrisonersStep]_vars

\* two prisoners, returned after some visits that changed nothing
C12_Witness ==
    /\ protocol = "DedicatedCounterPrisoner"
    /\ n_prisoners = 2
    /\ pc = "returned"
    /\ has_turned_on_the_light[1]
    /\ times_turned_off_the_light[0] = 1
    /\ result >= 4

\* C13: a NextDay that draws prisoner i sets i's indicator, leaves every
\* other indicator and every other prisoner's fields as they were, never
\* clears an indicator, and (when TakeAction returns) adds exactly 1 to
\* day_number.
C13_NextDayStep ==
    LET i == prisoner_id'
    IN /\ i \in Ids(n_prisoners)
       /\ indicators'[i]
       /\ \A j \in Ids(n_prisoners) :
              /\ indicators'[j] = (indicators[j] \/ j = i)
              /\ j # i =>
                     /\ has_turned_on_the_light'[j] = has_turned_on_the_light[j]
                     /\ times_turned_off_the_light'[j] = times_turned_off_the_light[j]
                     /\ n_tokens'[j] = n_tokens[j]
       /\ pc' # "crashed" => day_number' = day_number + 1
       /\ n_prisoners' = n_prisoners

C13_NextDayFrame == [][C13_NextDayStep]_vars

\* the third prisoner visits after the second; the first is still unseen
C13_Witness ==
    /\ protocol = "TokenPrisoner"
    /\ n_prisoners = 3
    /\ day_number = 2
    /\ prisoner_id = 2
    /\ indicators[1]
    /\ ~indicators[0]
    /\ n_tokens[0] = 2
    /\ n_tokens[1] = 0

\* C14: prisoner 0 finding the light off, and another prisoner that has
\* already turned the light on or finds it on, leave the light, the count
\* and every has_turned_on_the_light as they were.
C14_NoOpStep ==
    LET i == prisoner_id'
    IN (/\ protocol = "DedicatedCounterPrisoner"
        /\ i \in Ids(n_prisoners)
        /\ \/ i = 0 /\ ~is_on
           \/ i # 0 /\ (has_turned_on_the_light[i] \/ is_on))
       => /\ is_on' = is_on
          /\ times_turned_off_the_light' = times_turned_off_the_light
          /\ has_turned_on_the_light' = has_turned_on_the_light

C14_NoOpVisits == [][C14_NoOpStep]_vars

\* three visits by prisoners 0 and 1 only: at most two of them could act
C14_Witness ==
    /\ protocol = "DedicatedCounterPrisoner"
    /\ n_prisoners = 3
    /\ day_number = 3
    /\ ~indicators[2]
    /\ times_turned_off_the_light[0] = 1
    /\ ~is_on

\* C15: for k >= 2 the days [7N*s, 7N*(s+1)) have stage s (s in 0..k-1) and
\* IsLastDayOfTheStage(d) holds exactly for d = 7N*j - 1 (j = 1..k) and
\* d = 7N*k + 3N*j - 1 (j >= 1); for k = 1 the stage is always 0 and no day
\* is the last day of a stage.
C15_StageLengths ==
    (pc = "evaluated" /\ n_prisoners >= 2) =>
        LET k == NStages
            F == 7 * n_prisoners
            L == 3 * n_prisoners
            d == day_number
            last == IsLastDayOfTheStage(stage_index, next_day_stage_index)
        IN /\ k >= 2 =>
                  /\ \A s \in 0 .. (k - 1) :
                         (F * s <= d /\ d < F * (s + 1)) => stage_index = s
                  /\ last <=> \/ \E j \in 1 .. k : d = F * j - 1
                              \/ \E j \in 1 .. MaxStageDay : d = F * k + L * j - 1
           /\ k = 1 => (stage_index = 0 /\ next_day_stage_index = 0 /\ ~last)

\* three prisoners, the last day of the first 3N-day stage
C15_Witness ==
    /\ pc = "evaluated"
    /\ n_prisoners = 3
    /\ day_number = 50
    /\ stage_index = 0
    /\ next_day_stage_index = 1

\* C16: when a TokenPrisoner (n_prisoners >= 2) returns the claim it holds
\* 2^k tokens, every other prisoner holds none and the light is off.
C16_ClaimantHoldsEverything ==
    (protocol = "TokenPrisoner" /\ n_prisoners >= 2 /\ prisoner_claim = everyone) =>
        /\ n_tokens[prisoner_id] = TokenMass
        /\ \A j \in Ids(n_prisoners) \ {prisoner_id} : n_tokens[j] = 0
        /\ ~is_on

C16_Witness ==
    /\ protocol = "TokenPrisoner"
    /\ n_prisoners = 4
    /\ prisoner_claim = everyone
    /\ pc = "returned"

\* C17: at the start of every day (n_prisoners >= 2) the tokens held plus the
\* weight of the current stage, if the light is on, make 2^k.
C17_InFlightConservation ==
    (protocol = "TokenPrisoner" /\ n_prisoners >= 2) =>
        TokenSum + (IF is_on THEN Pow2(GetStageIndex(n_prisoners, day_number)) ELSE 0)
            = TokenMass

\* the last day of stage 0: prisoner 0 (2 tokens) had to take the offered 1
\* and offers a 2 for stage 1
C17_Witness ==
    /\ protocol = "TokenPrisoner"
    /\ n_prisoners = 3
    /\ prisoner_id = 0
    /\ input_day = 20
    /\ stage_index = 0
    /\ next_day_stage_index = 1
    /\ n_tokens[0] = 1
    /\ is_on

\* C18: every TokenPrisoner's n_tokens stays within 0 .. 2^k (n_prisoners >= 2).
C18_TokenBounds ==
    (protocol = "TokenPrisoner" /\ n_prisoners >= 2) =>
        \A i \in Ids(n_prisoners) : n_tokens[i] >= 0 /\ n_tokens[i] <= TokenMass

\* both ends are met: one prisoner has given everything away, one holds 2^k
C18_Witness ==
    /\ protocol = "TokenPrisoner"
    /\ n_prisoners = 3
    /\ \E i, j \in Ids(n_prisoners) :
           n_tokens[i] = 0 /\ n_tokens[j] = TokenMass

\* C19: the prisoners other than 0 that have turned the light on are as many
\* as prisoner 0's times_turned_off_the_light, plus one if the light is on;
\* when the claim is returned all of them have and the light is off.
C19_CounterAccounting ==
    protocol = "DedicatedCounterPrisoner" =>
        /\ Cardinality({i \in Ids(n_prisoners) \ {0} : has_turned_on_the_light[i]})
               = times_turned_off_the_light[0] + (IF is_on THEN 1 ELSE 0)
        /\ prisoner_claim = everyone =>
               /\ \A i \in Ids(n_prisoners) \ {0} : has_turned_on_the_light[i]
               /\ ~is_on

C19_Witness ==
    /\ protocol = "DedicatedCounterPrisoner"
    /\ n_prisoners = 4
    /\ times_turned_off_the_light[0] = 2
    /\ is_on

\* C20: for n_prisoners >= 2 every stage index is within 0 .. k-1, so every
\* exchange rate 1 << stage is within 1 .. 2^(k-1) and below 2^k.
C20_StageRange ==
    (pc = "evaluated" /\ n_prisoners >= 2) =>
        \A st \in {stage_index, next_day_stage_index} :
            /\ st >= 0
            /\ st <= NStages - 1
            /\ Pow2(st) >= 1
            /\ Pow2(st) <= Pow2(NStages - 1)
            /\ Pow2(st) < TokenMass

\* five prisoners, the top stage in a later cycle
C20_Witness ==
    /\ pc = "evaluated"
    /\ n_prisoners = 5
    /\ day_number > 105
    /\ stage_index = 2

====
